---- MODULE Spec2Model ----
(***************************************************************************)
(* Model of the retry-bounded e-mail generator of                          *)
(* src/job_application_mails.py (src/onboarding/onboarding.py is the same  *)
(* program with other paths and prompt): start-up on the CSV table file,   *)
(* the main loop with its attempt loop, the regex parser, the MD5          *)
(* duplicate check and the append to the CSV file.                         *)
(*                                                                         *)
(* A text is a sequence of tokens.  A token is one of the four labels      *)
(* ("SUBJECT:", ... in either letter case), a whitespace character or a    *)
(* content character.                                                      *)
(***************************************************************************)
EXTENDS Integers, Sequences, FiniteSets, TLC

\* ------------------------------------------------------------------------
\* Bounds of the model and constants of the program
\* ------------------------------------------------------------------------
NUM_EMAILS == 3

MAX_RETRIES == 3

\* a run starts only while LOG_FILE holds fewer than MaxLog lines
MaxLog == 4

\* the backend answers at most MaxCalls requests in all
MaxCalls == 5

\* the texts handed to the parser have at most MaxBlank blank lines between
\* two sections
MaxBlank == 2

\* ------------------------------------------------------------------------
\* Characters and strings
\* ------------------------------------------------------------------------
SP == " "

LF == "\n"

CR == "\r"

IsSpace(c) == c \in {SP, LF, CR}

\* re.IGNORECASE and upper() gone wrong: the letter case is left as it is
Upper_CaseSensitive(c) == c

Upper(c) ==
    CASE c = "subject:" -> "SUBJECT:"
      [] c = "body:"    -> "BODY:"
      [] c = "tone:"    -> "TONE:"
      [] c = "intent:"  -> "INTENT:"
      [] OTHER          -> c

Slice(s, i, j) == [k \in 1..(j - i + 1) |-> s[i + k - 1]]

RECURSIVE LStrip(_)
LStrip(s) == IF s # <<>> /\ IsSpace(Head(s)) THEN LStrip(Tail(s)) ELSE s

RECURSIVE RStrip(_)
RStrip(s) ==
    IF s # <<>> /\ IsSpace(s[Len(s)]) THEN RStrip(SubSeq(s, 1, Len(s) - 1)) ELSE s

\* str.strip()
Strip(s) == RStrip(LStrip(s))

\* ------------------------------------------------------------------------
\* The regular expression of parse_email,
\*   SUBJECT:\s*(.+?)\s+BODY:\s*(.+?)\s+TONE:\s*(.+?)\s+INTENT:\s*(.+?)(?:\s*)$
\* under re.DOTALL | re.IGNORECASE, as the sequence of its elements
\* ------------------------------------------------------------------------
Lit(l) == [kind |-> "lit", label |-> l, min |-> 0]

WsStar == [kind |-> "ws", label |-> "", min |-> 0]

WsPlus == [kind |-> "ws", label |-> "", min |-> 1]

Group == [kind |-> "group", label |-> "", min |-> 1]

EndAnchor == [kind |-> "end", label |-> "", min |-> 0]

\* the pattern gone wrong: without the $ at its end, the lazy last group stops
\* after its first character
pattern_NoEndAnchor ==
    << Lit("SUBJECT:"), WsStar, Group, WsPlus,
       Lit("BODY:"),    WsStar, Group, WsPlus,
       Lit("TONE:"),    WsStar, Group, WsPlus,
       Lit("INTENT:"),  WsStar, Group, WsStar >>

pattern ==
    << Lit("SUBJECT:"), WsStar, Group, WsPlus,
       Lit("BODY:"),    WsStar, Group, WsPlus,
       Lit("TONE:"),    WsStar, Group, WsPlus,
       Lit("INTENT:"),  WsStar, Group, WsStar, EndAnchor >>

NoMatch == [ok |-> FALSE, groups |-> <<>>]

\* the length of the run of whitespace that starts at position p of t
RECURSIVE WsRun(_, _)
WsRun(t, p) == IF p <= Len(t) /\ IsSpace(t[p]) THEN 1 + WsRun(t, p + 1) ELSE 0

\* The backtracking matcher of Python's re: Match(t, k, p) matches the
\* elements k.. of the pattern at position p of t and returns the first
\* match in the order the engine tries them: a greedy element longest
\* first, a lazy group shortest first.
RECURSIVE Match(_, _, _), Greedy(_, _, _, _), Lazy(_, _, _, _)
Match(t, k, p) ==
    IF k > Len(pattern) THEN [ok |-> TRUE, groups |-> <<>>]
    ELSE LET e == pattern[k] IN
         CASE e.kind = "lit" ->
                IF p <= Len(t) /\ Upper(t[p]) = e.label
                THEN Match(t, k + 1, p + 1) ELSE NoMatch
           [] e.kind = "ws" -> Greedy(t, k, p, WsRun(t, p))
           [] e.kind = "group" -> Lazy(t, k, p, 1)
           [] OTHER ->
                \* $ without re.MULTILINE: the end, or before a final newline
                IF p = Len(t) + 1 \/ (p = Len(t) /\ t[p] = LF)
                THEN Match(t, k + 1, p) ELSE NoMatch

Greedy(t, k, p, n) ==
    IF n < pattern[k].min THEN NoMatch
    ELSE LET r == Match(t, k + 1, p + n) IN
         IF r.ok THEN r ELSE Greedy(t, k, p, n - 1)

Lazy(t, k, p, n) ==
    IF p + n - 1 > Len(t) THEN NoMatch
    ELSE LET r == Match(t, k + 1, p + n) IN
         IF r.ok THEN [ok |-> TRUE, groups |-> <<Slice(t, p, p + n - 1)>> \o r.groups]
         ELSE Lazy(t, k, p, n + 1)

\* re.search: the leftmost position at which the pattern matches
RECURSIVE Search(_, _)
Search(t, p) ==
    IF p > Len(t) + 1 THEN NoMatch
    ELSE LET r == Match(t, 1, p) IN IF r.ok THEN r ELSE Search(t, p + 1)

None == [ok |-> FALSE]

\* parse_email of job_application_mails.py: the regex alone, the four groups
\* stripped, and no check that a stripped group is non-empty
parse_email(text) ==
    LET m == Search(Strip(text), 1) IN
    IF m.ok
    THEN [ok |-> TRUE,
          subject |-> Strip(m.groups[1]), body |-> Strip(m.groups[2]),
          tone |-> Strip(m.groups[3]), intent |-> Strip(m.groups[4])]
    ELSE None

\* parse_email_robust of email_generator_nojson_multiline.py: the same
\* regex, and the match is used only if the four stripped groups are non-empty
parse_email_robust(text) ==
    LET m == Search(Strip(text), 1) IN
    IF m.ok /\ Strip(m.groups[1]) # <<>> /\ Strip(m.groups[2]) # <<>>
            /\ Strip(m.groups[3]) # <<>> /\ Strip(m.groups[4]) # <<>>
    THEN [ok |-> TRUE,
          subject |-> Strip(m.groups[1]), body |-> Strip(m.groups[2]),
          tone |-> Strip(m.groups[3]), intent |-> Strip(m.groups[4])]
    ELSE None

\* ------------------------------------------------------------------------
\* The line scan of parse_email_fallback
\* ------------------------------------------------------------------------
\* text.split('\n'): the lines of a text, without their newlines
RECURSIVE Split(_)
Split(s) ==
    IF \A k \in 1..Len(s) : s[k] # LF THEN <<s>>
    ELSE LET n == CHOOSE k \in 1..Len(s) : s[k] = LF /\ \A j \in 1..(k - 1) : s[j] # LF
         IN <<SubSeq(s, 1, n - 1)>> \o Split(SubSeq(s, n + 1, Len(s)))

\* "\n".join(buffer)
RECURSIVE Join(_)
Join(buffer) ==
    IF buffer = <<>> THEN <<>>
    ELSE IF Len(buffer) = 1 THEN buffer[1]
    ELSE buffer[1] \o <<LF>> \o Join(Tail(buffer))

\* the field a line starts, by the label its stripped upper-case form starts
\* with; "" if the line starts no field
FieldOf(line) ==
    LET line_upper == Strip(line) IN
    IF line_upper = <<>> THEN ""
    ELSE CASE Upper(line_upper[1]) = "SUBJECT:" -> "subject"
           [] Upper(line_upper[1]) = "BODY:"    -> "body"
           [] Upper(line_upper[1]) = "TONE:"    -> "tone"
           [] Upper(line_upper[1]) = "INTENT:"  -> "intent"
           [] OTHER -> ""

\* line.split(":", 1)[1].strip() of a line that starts a field: what follows
\* the colon of the label
ContentOf(line) == Strip(Tail(LStrip(line)))

\* fields[current_field] = "\n".join(buffer).strip(), if there is a current
\* field and the buffer has a line
Flush(st) ==
    IF st.current_field # "" /\ st.buffer # <<>>
    THEN [st.fields EXCEPT ![st.current_field] = Strip(Join(st.buffer))]
    ELSE st.fields

\* the for loop over the lines, from line k on
RECURSIVE Scan(_, _, _)
Scan(lines, k, st) ==
    IF k > Len(lines) THEN st
    ELSE LET line == lines[k]
             f == FieldOf(line)
         IN IF f # ""
            THEN Scan(lines, k + 1,
                      [fields |-> Flush(st), current_field |-> f,
                       buffer |-> IF ContentOf(line) # <<>> THEN <<ContentOf(line)>> ELSE <<>>])
            ELSE IF st.current_field # ""
                 THEN Scan(lines, k + 1, [st EXCEPT !.buffer = Append(st.buffer, line)])
                 ELSE Scan(lines, k + 1, st)

\* the validation gone wrong: one non-empty field is enough
parse_email_fallback_Any(text) ==
    LET st == Scan(Split(Strip(text)), 1,
                   [fields |-> [f \in {"subject", "body", "tone", "intent"} |-> <<>>],
                    current_field |-> "", buffer |-> <<>>])
        fields == Flush(st)
    IN IF \E f \in DOMAIN fields : fields[f] # <<>>
       THEN [ok |-> TRUE, subject |-> fields["subject"], body |-> fields["body"],
             tone |-> fields["tone"], intent |-> fields["intent"]]
       ELSE None

\* parse_email_fallback: the fields of the line scan, if all four are non-empty
parse_email_fallback(text) ==
    LET st == Scan(Split(Strip(text)), 1,
                   [fields |-> [f \in {"subject", "body", "tone", "intent"} |-> <<>>],
                    current_field |-> "", buffer |-> <<>>])
        fields == Flush(st)
    IN IF \A f \in DOMAIN fields : fields[f] # <<>>
       THEN [ok |-> TRUE, subject |-> fields["subject"], body |-> fields["body"],
             tone |-> fields["tone"], intent |-> fields["intent"]]
       ELSE None

\* parse_email of email_generator_nojson_multiline.py: the regex first, the
\* line scan if the regex gave nothing
parse_email_multiline(text) ==
    LET result == parse_email_robust(text) IN
    IF result.ok THEN result ELSE parse_email_fallback(text)

\* ------------------------------------------------------------------------
\* The files and the backend
\* ------------------------------------------------------------------------
fieldnames == <<"id", "subject", "body", "tone", "intent">>

\* hashlib.md5(body).hexdigest(): the digest of a body, taken as free of
\* collisions (two bodies have the same digest only if they are the same)
md5(body) == [md5 |-> body]

\* writerow gone wrong: the values in the order in which email_data got its
\* keys (subject, body, tone, intent, and id last)
writerow_KeyOrder(d) ==
    LET keys == <<"subject", "body", "tone", "intent", "id">> IN
    [i \in 1..Len(keys) |-> d[keys[i]]]

\* csv.DictWriter(f, fieldnames).writerow(d): the values of d in the order
\* of fieldnames, whatever the order in which d got its keys
writerow(d) == [i \in 1..Len(fieldnames) |-> d[fieldnames[i]]]

\* open(OUTPUT_CSV, "r") without newline="": universal newlines turn "\r\n"
\* and a lone "\r" into "\n", inside quoted fields too
RECURSIVE UniversalNewlines(_)
UniversalNewlines(s) ==
    IF s = <<>> THEN <<>>
    ELSE IF Head(s) = CR
         THEN IF Len(s) >= 2 /\ s[2] = LF
              THEN <<LF>> \o UniversalNewlines(SubSeq(s, 3, Len(s)))
              ELSE <<LF>> \o UniversalNewlines(Tail(s))
         ELSE <<Head(s)>> \o UniversalNewlines(Tail(s))

\* list(csv.DictReader(f)): the first line names the columns, every further
\* line is a dictionary from the column names to the fields as read (the id
\* column holds digits only)
DictReader(file) ==
    IF file = <<>> THEN <<>>
    ELSE LET header == Head(file)
             cols == {header[i] : i \in 1..Len(header)}
             col(k) == CHOOSE i \in 1..Len(header) : header[i] = k
         IN [n \in 1..(Len(file) - 1) |->
               [k \in cols |->
                  IF k = "id" THEN file[n + 1][col(k)]
                  ELSE UniversalNewlines(file[n + 1][col(k)])]]

\* The texts the backend is taken to return in a run: the format the prompt
\* asks for, with a subject s and a body b
Reply(s, b) ==
    <<"SUBJECT:", SP>> \o s \o <<LF, LF, "BODY:", LF>> \o b
        \o <<LF, LF, "TONE:", SP, "a", LF, LF, "INTENT:", SP, "a">>

Texts ==
    { <<>>,                              \* an empty response
      <<"a", SP, "b">>,                  \* no labelled section at all
      Reply(<<"a">>, <<"a">>),
      Reply(<<"b">>, <<"a">>),           \* the same body under another subject
      Reply(<<"a">>, <<>>),              \* a BODY section with nothing in it
      Reply(<<"a">>, <<"a", CR, LF, "b">>) }

\* parse_email on each of these texts
Parsed == [t \in Texts |-> parse_email(t)]

\* call_ollama: the response text, or None on any exception
Responses == {[ok |-> FALSE, text |-> <<>>]} \cup {[ok |-> TRUE, text |-> t] : t \in Texts}

\* ------------------------------------------------------------------------
\* State
\* ------------------------------------------------------------------------
VARIABLES
    pc,             \* where the process is: idle, loop, attempt, after, end, done, dead
    csvExists,      \* os.path.exists(OUTPUT_CSV)
    csvFile,        \* the lines of OUTPUT_CSV, the header line first
    logFile,        \* the lines of LOG_FILE
    debugFiles,     \* DEBUG_DIR: the set of <<id, attempt, text>> of fail_<id>_att<attempt>.txt
    stopFile,       \* os.path.exists("stop.txt")
    seen_hashes,
    start_id,
    current_id,
    total_success,
    attempt,
    success,
    calls,          \* the requests the backend got for the item in progress
    totalCalls,     \* the requests the backend got in all runs
    diskOk,         \* whether the file system lets a file be created, opened and written
    email_i,        \* email_generator_nojson_multiline.py: i, the item of the generation loop
    successful,     \* email_generator_nojson_multiline.py: the items saved
    failed,         \* email_generator_nojson_multiline.py: the items skipped
    jsonFiles,      \* OUTPUT_DIR: the set of records of email_<i>.json
    raw_output,     \* the text handed to the two-stage parser
    robust,         \* what parse_email_robust returned for it
    fallback        \* what parse_email_fallback returned for it

vars == <<pc, csvExists, csvFile, logFile, debugFiles, stopFile, seen_hashes,
          start_id, current_id, total_success, attempt, success, calls, totalCalls,
          diskOk, email_i, successful, failed, jsonFiles, raw_output, robust, fallback>>

\* the state of the generation loop of email_generator_nojson_multiline.py
generation == <<email_i, successful, failed, jsonFiles>>

\* the state of one call of its parse_email
parser == <<raw_output, robust, fallback>>

files == <<csvExists, csvFile, logFile, debugFiles>>

memory == <<seen_hashes, start_id, current_id, total_success, attempt, success>>

LogLine(ev, n) == [ev |-> ev, n |-> n]

\* log_event(message): appends one line to LOG_FILE; a failed write is caught
\* in log_event and the line is lost
log_event(line) == logFile' = IF diskOk THEN Append(logFile, line) ELSE logFile

Init ==
    /\ pc = "idle"
    /\ csvExists \in BOOLEAN
    /\ csvFile = IF csvExists THEN <<fieldnames>> ELSE <<>>
    /\ logFile = <<>>
    /\ debugFiles = {}
    /\ stopFile = FALSE
    /\ seen_hashes = {}
    /\ start_id = 1
    /\ current_id = 1
    /\ total_success = 0
    /\ attempt = 0
    /\ success = FALSE
    /\ calls = 0
    /\ totalCalls = 0
    /\ diskOk = TRUE
    /\ email_i = 0
    /\ successful = 0
    /\ failed = 0
    /\ jsonFiles = {}
    /\ raw_output = <<>>
    /\ robust = None
    /\ fallback = None

\* ------------------------------------------------------------------------
\* Start-up (SETUP, and the head of MAIN LOOP up to the session-start line)
\* ------------------------------------------------------------------------
\* the header is written only if the file does not exist
CreateCsv == IF csvExists THEN csvFile ELSE <<writerow([k \in {fieldnames[i] : i \in 1..Len(fieldnames)} |-> k])>>

\* seen_hashes after the seeding loop over the rows read
SeedHashes(rows) ==
    { md5(rows[n]["body"]) :
        n \in {i \in 1..Len(rows) : "body" \in DOMAIN rows[i] /\ rows[i]["body"] # <<>>} }

\* start-up gone wrong: the rows read are not counted and the run starts at
\* id 1 on any Table File
Startup_FromOne ==
    /\ pc \in {"idle", "done", "dead"}
    /\ Len(logFile) < MaxLog
    /\ diskOk
    /\ csvExists' = TRUE
    /\ csvFile' = CreateCsv
    /\ start_id' = 1
    /\ seen_hashes' = SeedHashes(DictReader(csvFile'))
    /\ current_id' = start_id'
    /\ total_success' = 0
    /\ attempt' = 0
    /\ success' = FALSE
    /\ calls' = 0
    /\ log_event(LogLine("START", current_id'))
    /\ pc' = "loop"
    /\ UNCHANGED <<diskOk, generation, parser, debugFiles, stopFile, totalCalls>>

Startup ==
    /\ pc \in {"idle", "done", "dead"}
    /\ Len(logFile) < MaxLog
    /\ diskOk
    /\ csvExists' = TRUE
    /\ csvFile' = CreateCsv
    /\ LET rows == DictReader(csvFile') IN
         /\ start_id' = Len(rows) + 1
         /\ seen_hashes' = SeedHashes(rows)
    /\ current_id' = start_id'
    /\ total_success' = 0
    /\ attempt' = 0
    /\ success' = FALSE
    /\ calls' = 0
    /\ log_event(LogLine("START", current_id'))
    /\ pc' = "loop"
    /\ UNCHANGED <<diskOk, generation, parser, debugFiles, stopFile, totalCalls>>

\* ------------------------------------------------------------------------
\* The main loop
\* ------------------------------------------------------------------------
\* while current_id <= NUM_EMAILS: the condition fails
LoopExit ==
    /\ pc = "loop"
    /\ ~(current_id <= NUM_EMAILS)
    /\ pc' = "end"
    /\ UNCHANGED <<diskOk, generation, parser, files, stopFile, memory, calls, totalCalls>>

\* the stop check gone wrong: stop.txt is not looked at and the item starts
StopDetected_Ignored ==
    /\ pc = "loop"
    /\ current_id <= NUM_EMAILS
    /\ stopFile
    /\ success' = FALSE
    /\ attempt' = 1
    /\ calls' = 0
    /\ pc' = "attempt"
    /\ UNCHANGED <<diskOk, generation, parser, files, stopFile, seen_hashes, start_id, current_id,
                   total_success, totalCalls>>

\* if os.path.exists("stop.txt"): log and break
StopDetected ==
    /\ pc = "loop"
    /\ current_id <= NUM_EMAILS
    /\ stopFile
    /\ log_event(LogLine("MANUAL STOP", 0))
    /\ pc' = "end"
    /\ UNCHANGED <<diskOk, generation, parser, csvExists, csvFile, debugFiles, stopFile, memory, calls, totalCalls>>

\* the item starts: success = False, and the for loop starts at attempt 1
BeginItem ==
    /\ pc = "loop"
    /\ current_id <= NUM_EMAILS
    /\ ~stopFile
    /\ success' = FALSE
    /\ attempt' = 1
    /\ calls' = 0
    /\ pc' = "attempt"
    /\ UNCHANGED <<diskOk, generation, parser, files, stopFile, seen_hashes, start_id, current_id,
                   total_success, totalCalls>>

\* one request to the backend, for the item in progress
Request ==
    /\ totalCalls < MaxCalls
    /\ calls' = calls + 1
    /\ totalCalls' = totalCalls + 1

\* the for loop gone wrong: range(1, MAX_RETRIES + 2), one attempt too many
Continue_OffByOne ==
    IF attempt < MAX_RETRIES + 1
    THEN attempt' = attempt + 1 /\ pc' = "attempt"
    ELSE attempt' = attempt /\ pc' = "after"

\* the for loop gone wrong: stop.txt is looked at between two attempts, and
\* the run goes to its end when it is there
Continue_ChecksStop ==
    IF stopFile
    THEN attempt' = attempt /\ pc' = "end"
    ELSE IF attempt < MAX_RETRIES
         THEN attempt' = attempt + 1 /\ pc' = "attempt"
         ELSE attempt' = attempt /\ pc' = "after"

\* the for loop gone wrong: a loop without a limit, which tries the item again
\* until an attempt is accepted
Continue_Unbounded ==
    attempt' = (IF attempt < MAX_RETRIES THEN attempt + 1 ELSE attempt) /\ pc' = "attempt"

\* the for loop goes to its next attempt, or is over after MAX_RETRIES
Continue ==
    IF attempt < MAX_RETRIES
    THEN attempt' = attempt + 1 /\ pc' = "attempt"
    ELSE attempt' = attempt /\ pc' = "after"

\* call_ollama gone wrong: without its try/except the exception of the request
\* is not caught and ends the process
BackendFailure_Raises ==
    /\ pc = "attempt"
    /\ Request
    /\ \E r \in Responses : ~r.ok \/ r.text = <<>>
    /\ pc' = "dead"
    /\ seen_hashes' = {}
    /\ start_id' = 1
    /\ current_id' = 1
    /\ total_success' = 0
    /\ attempt' = 0
    /\ success' = FALSE
    /\ UNCHANGED <<diskOk, generation, parser, files, stopFile>>

\* raw_output is None or empty: continue
BackendFailure ==
    /\ pc = "attempt"
    /\ Request
    /\ \E r \in Responses :
         /\ ~r.ok \/ r.text = <<>>
         /\ Continue
    /\ UNCHANGED <<diskOk, generation, parser, files, stopFile, seen_hashes, start_id, current_id,
                   total_success, success>>

\* parse_email returns None: the text goes to a debug file of the attempt
ParseFailure ==
    /\ pc = "attempt"
    /\ diskOk
    /\ Request
    /\ \E r \in Responses :
         /\ r.ok /\ r.text # <<>>
         /\ ~Parsed[r.text].ok
         /\ debugFiles' = {d \in debugFiles : <<d[1], d[2]>> # <<current_id, attempt>>}
                             \cup {<<current_id, attempt, r.text>>}
         /\ Continue
    /\ UNCHANGED <<diskOk, generation, parser, csvExists, csvFile, logFile, stopFile, seen_hashes, start_id,
                   current_id, total_success, success>>

\* the duplicate check gone wrong: the record is saved although the digest
\* of its body is in seen_hashes
DuplicateDetected_Saved ==
    /\ pc = "attempt"
    /\ diskOk
    /\ Request
    /\ \E r \in Responses :
         /\ r.ok /\ r.text # <<>>
         /\ LET parsed == Parsed[r.text] IN
              /\ parsed.ok
              /\ md5(parsed.body) \in seen_hashes
              /\ LET email_data == [subject |-> parsed.subject, body |-> parsed.body,
                                    tone |-> parsed.tone, intent |-> parsed.intent,
                                    id |-> current_id]
                 IN csvFile' = Append(csvFile, writerow(email_data))
    /\ log_event(LogLine("SUCCESS", current_id))
    /\ current_id' = current_id + 1
    /\ total_success' = total_success + 1
    /\ success' = TRUE
    /\ pc' = "after"
    /\ UNCHANGED <<diskOk, generation, parser, csvExists, debugFiles, stopFile, seen_hashes,
                   start_id, attempt>>

\* the digest of the parsed body is in seen_hashes: continue
DuplicateDetected ==
    /\ pc = "attempt"
    /\ Request
    /\ \E r \in Responses :
         /\ r.ok /\ r.text # <<>>
         /\ LET email_data == Parsed[r.text] IN
              /\ email_data.ok
              /\ md5(email_data.body) \in seen_hashes
         /\ Continue
    /\ UNCHANGED <<diskOk, generation, parser, files, stopFile, seen_hashes, start_id, current_id,
                   total_success, success>>

\* SUCCESS: the record gets the id, its digest is added, the row is appended,
\* the success is logged, and the for loop is left by break
Accept ==
    /\ pc = "attempt"
    /\ diskOk
    /\ Request
    /\ \E r \in Responses :
         /\ r.ok /\ r.text # <<>>
         /\ LET parsed == Parsed[r.text] IN
              /\ parsed.ok
              /\ md5(parsed.body) \notin seen_hashes
              /\ seen_hashes' = seen_hashes \cup {md5(parsed.body)}
              /\ LET email_data == [subject |-> parsed.subject, body |-> parsed.body,
                                    tone |-> parsed.tone, intent |-> parsed.intent,
                                    id |-> current_id]
                 IN csvFile' = Append(csvFile, writerow(email_data))
    /\ log_event(LogLine("SUCCESS", current_id))
    /\ current_id' = current_id + 1
    /\ total_success' = total_success + 1
    /\ success' = TRUE
    /\ pc' = "after"
    /\ UNCHANGED <<diskOk, generation, parser, csvExists, debugFiles, stopFile, start_id, attempt>>

\* the skip gone wrong: the id of the exhausted item is kept for the next item
Skipped_KeepsId ==
    /\ pc = "after"
    /\ ~success
    /\ log_event(LogLine("SKIPPED", current_id))
    /\ pc' = "loop"
    /\ UNCHANGED <<diskOk, generation, parser, csvExists, csvFile, debugFiles, stopFile, memory, calls, totalCalls>>

\* the skip gone wrong: two ids are passed over
Skipped_TwoIds ==
    /\ pc = "after"
    /\ ~success
    /\ log_event(LogLine("SKIPPED", current_id))
    /\ current_id' = current_id + 2
    /\ pc' = "loop"
    /\ UNCHANGED <<diskOk, generation, parser, csvExists, csvFile, debugFiles, stopFile, seen_hashes, start_id,
                   total_success, attempt, success, calls, totalCalls>>

\* the skip gone wrong: an exhausted item ends the run
Skipped_Abort ==
    /\ pc = "after"
    /\ ~success
    /\ log_event(LogLine("SKIPPED", current_id))
    /\ current_id' = current_id + 1
    /\ pc' = "end"
    /\ UNCHANGED <<diskOk, generation, parser, csvExists, csvFile, debugFiles, stopFile, seen_hashes, start_id,
                   total_success, attempt, success, calls, totalCalls>>

\* if not success: the skip is logged and the id is passed over
Skipped ==
    /\ pc = "after"
    /\ ~success
    /\ log_event(LogLine("SKIPPED", current_id))
    /\ current_id' = current_id + 1
    /\ pc' = "loop"
    /\ UNCHANGED <<diskOk, generation, parser, csvExists, csvFile, debugFiles, stopFile, seen_hashes, start_id,
                   total_success, attempt, success, calls, totalCalls>>

\* after a success there is only the delay before the next item
NextItem ==
    /\ pc = "after"
    /\ success
    /\ pc' = "loop"
    /\ UNCHANGED <<diskOk, generation, parser, files, stopFile, memory, calls, totalCalls>>

\* the session end gone wrong: the number of items processed is reported as
\* the number of new emails
Finish_ReportsItems ==
    /\ pc = "end"
    /\ log_event(LogLine("STOPPED", current_id - start_id))
    /\ pc' = "done"
    /\ UNCHANGED <<diskOk, generation, parser, csvExists, csvFile, debugFiles, stopFile, memory, calls, totalCalls>>

\* the session end is logged and the script ends
Finish ==
    /\ pc = "end"
    /\ log_event(LogLine("STOPPED", total_success))
    /\ pc' = "done"
    /\ UNCHANGED <<diskOk, generation, parser, csvExists, csvFile, debugFiles, stopFile, memory, calls, totalCalls>>

\* ------------------------------------------------------------------------
\* The environment: the process is killed; stop.txt is created or removed
\* ------------------------------------------------------------------------
Interrupt ==
    /\ pc \in {"loop", "attempt", "after", "end"}
    /\ pc' = "dead"
    /\ seen_hashes' = {}
    /\ start_id' = 1
    /\ current_id' = 1
    /\ total_success' = 0
    /\ attempt' = 0
    /\ success' = FALSE
    /\ calls' = 0
    /\ UNCHANGED <<diskOk, generation, parser, files, stopFile, totalCalls>>

CreateStop ==
    /\ ~stopFile
    /\ stopFile' = TRUE
    /\ UNCHANGED <<diskOk, generation, parser, pc, files, memory, calls, totalCalls>>

RemoveStop ==
    /\ stopFile
    /\ stopFile' = FALSE
    /\ UNCHANGED <<diskOk, generation, parser, pc, files, memory, calls, totalCalls>>

Next ==
    \/ Startup
    \/ LoopExit
    \/ StopDetected
    \/ BeginItem
    \/ BackendFailure
    \/ ParseFailure
    \/ DuplicateDetected
    \/ Accept
    \/ Skipped
    \/ NextItem
    \/ Finish
    \/ Interrupt
    \/ CreateStop
    \/ RemoveStop

Spec == Init /\ [][Next]_vars

\* ------------------------------------------------------------------------
\* The file system fails: a file cannot be created, opened or written
\* ------------------------------------------------------------------------
\* the memory of a process that has ended
Exit ==
    /\ pc' = "dead"
    /\ seen_hashes' = {}
    /\ start_id' = 1
    /\ current_id' = 1
    /\ total_success' = 0
    /\ attempt' = 0
    /\ success' = FALSE
    /\ calls' = 0

\* start-up gone wrong: the failed open is swallowed and the run goes on
\* without a Table File
StartupFailure_Swallowed ==
    /\ pc \in {"idle", "done", "dead"}
    /\ ~diskOk
    /\ start_id' = 1
    /\ current_id' = 1
    /\ seen_hashes' = {}
    /\ total_success' = 0
    /\ attempt' = 0
    /\ success' = FALSE
    /\ calls' = 0
    /\ pc' = "loop"
    /\ UNCHANGED <<diskOk, generation, parser, files, stopFile, totalCalls>>

\* open(OUTPUT_CSV, ...) raises at start-up, nothing catches it and the
\* script ends before MAIN LOOP
StartupFailure ==
    /\ pc \in {"idle", "done", "dead"}
    /\ ~diskOk
    /\ Exit
    /\ UNCHANGED <<diskOk, generation, parser, files, stopFile, totalCalls>>

\* parse_email returns None and the open of the debug file raises: the
\* write is in no try, so the exception ends the script
DebugWriteFailure ==
    /\ pc = "attempt"
    /\ ~diskOk
    /\ totalCalls < MaxCalls
    /\ totalCalls' = totalCalls + 1
    /\ \E r \in Responses :
         /\ r.ok /\ r.text # <<>>
         /\ ~Parsed[r.text].ok
    /\ Exit
    /\ UNCHANGED <<diskOk, generation, parser, files, stopFile>>

\* the record is new and the open of OUTPUT_CSV for the append raises: the
\* exception ends the script
AppendFailure ==
    /\ pc = "attempt"
    /\ ~diskOk
    /\ totalCalls < MaxCalls
    /\ totalCalls' = totalCalls + 1
    /\ \E r \in Responses :
         /\ r.ok /\ r.text # <<>>
         /\ Parsed[r.text].ok
         /\ md5(Parsed[r.text].body) \notin seen_hashes
    /\ Exit
    /\ UNCHANGED <<diskOk, generation, parser, files, stopFile>>

DiskFails ==
    /\ diskOk
    /\ diskOk' = FALSE
    /\ UNCHANGED <<pc, files, stopFile, memory, calls, totalCalls, generation, parser>>

DiskRecovers ==
    /\ ~diskOk
    /\ diskOk' = TRUE
    /\ UNCHANGED <<pc, files, stopFile, memory, calls, totalCalls, generation, parser>>

\* the program on a file system that may fail
NextFault ==
    \/ Startup
    \/ StartupFailure
    \/ LoopExit
    \/ BeginItem
    \/ BackendFailure
    \/ ParseFailure
    \/ DebugWriteFailure
    \/ DuplicateDetected
    \/ Accept
    \/ AppendFailure
    \/ Skipped
    \/ NextItem
    \/ Finish
    \/ DiskFails
    \/ DiskRecovers

SpecFault == Init /\ [][NextFault]_vars

\* ------------------------------------------------------------------------
\* The generation loop of email_generator_nojson_multiline.py: one JSON file
\* per saved item, the raw output of every attempt written to DEBUG_DIR
\* before it is parsed, and everything of an attempt inside one try
\* ------------------------------------------------------------------------
\* the texts the backend is taken to return to this script: one without
\* labels and one in the format the prompt asks for
GenTexts == { <<"a", SP, "b">>, Reply(<<"a">>, <<"a">>) }

\* parse_email of that script on each of these texts
ParsedMultiline == [t \in GenTexts |-> parse_email_multiline(t)]

InitGen ==
    /\ pc = "g_idle"
    /\ csvExists = FALSE
    /\ csvFile = <<>>
    /\ logFile = <<>>
    /\ debugFiles = {}
    /\ stopFile = FALSE
    /\ seen_hashes = {}
    /\ start_id = 1
    /\ current_id = 1
    /\ total_success = 0
    /\ attempt = 0
    /\ success = FALSE
    /\ calls = 0
    /\ totalCalls = 0
    /\ diskOk = TRUE
    /\ email_i = 0
    /\ successful = 0
    /\ failed = 0
    /\ jsonFiles = {}
    /\ raw_output = <<>>
    /\ robust = None
    /\ fallback = None

\* what the generation loop never touches
notGen == <<csvExists, csvFile, logFile, stopFile, seen_hashes, start_id, current_id,
            total_success, calls, totalCalls, parser>>

\* successful = 0, failed = 0, and the for loop starts at i = 1
GenStart ==
    /\ pc = "g_idle"
    /\ diskOk
    /\ successful' = 0
    /\ failed' = 0
    /\ email_i' = 1
    /\ pc' = "g_loop"
    /\ UNCHANGED <<notGen, diskOk, debugFiles, jsonFiles, attempt, success>>

\* the item starts: success = False, and the inner for loop starts at attempt 1
GenBeginItem ==
    /\ pc = "g_loop"
    /\ email_i <= NUM_EMAILS
    /\ success' = FALSE
    /\ attempt' = 1
    /\ pc' = "g_attempt"
    /\ UNCHANGED <<notGen, diskOk, debugFiles, generation>>

\* the inner for loop goes to its next attempt, or is over after MAX_RETRIES
GenContinue ==
    IF attempt < MAX_RETRIES
    THEN attempt' = attempt + 1 /\ pc' = "g_attempt"
    ELSE attempt' = attempt /\ pc' = "g_after"

\* call_ollama raises (the request, raise_for_status or the missing key):
\* the except of the attempt prints the error
GenCallFailure ==
    /\ pc = "g_attempt"
    /\ GenContinue
    /\ UNCHANGED <<notGen, diskOk, debugFiles, generation, success>>

\* the backend answers and the open of the debug file raises: the except of
\* the attempt prints the error, and the text is never parsed
GenDebugWriteFailure ==
    /\ pc = "g_attempt"
    /\ ~diskOk
    /\ \E t \in GenTexts : GenContinue
    /\ UNCHANGED <<notGen, diskOk, debugFiles, generation, success>>

\* DEBUG_DIR after the raw output of the attempt was written to its file
DebugWritten(t) ==
    {d \in debugFiles : <<d[1], d[2]>> # <<email_i, attempt>>} \cup {<<email_i, attempt, t>>}

\* the raw output is written to the debug file and parse_email returns None
GenParseFailure ==
    /\ pc = "g_attempt"
    /\ diskOk
    /\ \E t \in GenTexts :
         /\ ~ParsedMultiline[t].ok
         /\ debugFiles' = DebugWritten(t)
    /\ GenContinue
    /\ UNCHANGED <<notGen, diskOk, generation, success>>

\* the raw output is written to the debug file, parse_email returns a record,
\* and writing email_<i>.json raises: the except of the attempt prints the
\* error, and the debug file of the attempt stays
GenSaveFailure ==
    /\ pc = "g_attempt"
    /\ diskOk
    /\ \E t \in GenTexts :
         /\ ParsedMultiline[t].ok
         /\ debugFiles' = DebugWritten(t)
    /\ GenContinue
    /\ UNCHANGED <<notGen, diskOk, generation, success>>

\* the raw output is written to the debug file, parse_email returns a record,
\* the record is saved with its id as email_<i>.json, and the debug files of
\* the attempts 1..attempt of the item are removed
GenAccept ==
    /\ pc = "g_attempt"
    /\ diskOk
    /\ \E t \in GenTexts :
         LET parsed == ParsedMultiline[t] IN
         /\ parsed.ok
         /\ LET email_data == [subject |-> parsed.subject, body |-> parsed.body,
                               tone |-> parsed.tone, intent |-> parsed.intent,
                               id |-> email_i]
            IN jsonFiles' = {j \in jsonFiles : j.id # email_i} \cup {email_data}
         /\ debugFiles' = {d \in DebugWritten(t) : ~(d[1] = email_i /\ d[2] \in 1..attempt)}
    /\ successful' = successful + 1
    /\ success' = TRUE
    /\ pc' = "g_after"
    /\ UNCHANGED <<notGen, diskOk, email_i, failed, attempt>>

\* if not success: failed += 1, and the outer for loop goes on
GenSkipped ==
    /\ pc = "g_after"
    /\ ~success
    /\ failed' = failed + 1
    /\ email_i' = email_i + 1
    /\ pc' = "g_loop"
    /\ UNCHANGED <<notGen, diskOk, debugFiles, jsonFiles, successful, attempt, success>>

\* after a saved item the outer for loop goes on
GenNextItem ==
    /\ pc = "g_after"
    /\ success
    /\ email_i' = email_i + 1
    /\ pc' = "g_loop"
    /\ UNCHANGED <<notGen, diskOk, debugFiles, jsonFiles, successful, failed, attempt, success>>

\* range(1, NUM_EMAILS + 1) is exhausted: the summary is printed
GenSummary ==
    /\ pc = "g_loop"
    /\ email_i > NUM_EMAILS
    /\ pc' = "g_done"
    /\ UNCHANGED <<notGen, diskOk, debugFiles, generation, attempt, success>>

NextGen ==
    \/ GenStart
    \/ GenBeginItem
    \/ GenCallFailure
    \/ GenDebugWriteFailure
    \/ GenParseFailure
    \/ GenSaveFailure
    \/ GenAccept
    \/ GenSkipped
    \/ GenNextItem
    \/ GenSummary
    \/ DiskFails
    \/ DiskRecovers

SpecGen == InitGen /\ [][NextGen]_vars

\* ------------------------------------------------------------------------
\* The parsers on their own: parse_email of email_generator_nojson_multiline.py
\* (the regex, then the line scan) and parse_email of job_application_mails.py
\* (the regex alone) applied to one text
\* ------------------------------------------------------------------------
labels == <<"SUBJECT:", "BODY:", "TONE:", "INTENT:">>

\* the label of section k as the text has it: in upper case, in lower case,
\* or not at all
LabelAs(k, case) ==
    CASE case = "upper" -> <<labels[k]>>
      [] case = "lower" -> <<(<<"subject:", "body:", "tone:", "intent:">>)[k]>>
      [] OTHER          -> <<>>

\* the content of section k (each section has its own letter) in one of
\* three layouts, with what stands between the label and the content
ContentAs(k, layout) ==
    LET c == (<<"a", "b", "c", "d">>)[k] IN
    CASE layout = 1 -> <<SP, c>>                  \* "SUBJECT: a"
      [] layout = 2 -> <<c, SP, c>>               \* "SUBJECT:a a"
      [] OTHER      -> <<LF, c, LF, c>>           \* the label on a line of its own, two lines

\* n newlines
RECURSIVE Newlines(_)
Newlines(n) == IF n = 0 THEN <<>> ELSE <<LF>> \o Newlines(n - 1)

\* a text of four sections: section k has its label in the case cases[k],
\* its content in the given layout (none if k = empty), and seps[k]
\* newlines between it and the next section (none at all, the end of the
\* line, or MaxBlank blank lines)
FourSections(cases, seps, layout, empty) ==
    LET section(k) ==
          LabelAs(k, cases[k]) \o (IF k = empty THEN <<>> ELSE ContentAs(k, layout))
    IN section(1) \o Newlines(seps[1]) \o section(2) \o Newlines(seps[2])
         \o section(3) \o Newlines(seps[3]) \o section(4)

ParseTexts ==
    { FourSections(cases, seps, layout, empty) :
        cases \in [1..4 -> {"upper", "lower", "none"}],
        seps \in [1..3 -> {0, 1, MaxBlank + 1}],
        layout \in 1..3,
        empty \in {0, 2, 4} }

InitParse ==
    /\ pc = "p_text"
    /\ raw_output \in ParseTexts
    /\ robust = None
    /\ fallback = None
    /\ csvExists = FALSE
    /\ csvFile = <<>>
    /\ logFile = <<>>
    /\ debugFiles = {}
    /\ stopFile = FALSE
    /\ seen_hashes = {}
    /\ start_id = 1
    /\ current_id = 1
    /\ total_success = 0
    /\ attempt = 0
    /\ success = FALSE
    /\ calls = 0
    /\ totalCalls = 0
    /\ diskOk = TRUE
    /\ email_i = 0
    /\ successful = 0
    /\ failed = 0
    /\ jsonFiles = {}

\* what a call of a parser never touches
notParser == <<files, stopFile, memory, calls, totalCalls, diskOk, generation>>

\* parse_email of email_generator_nojson_multiline.py, stage 1: the result
\* of parse_email_robust is returned if there is one
ParseRobust ==
    /\ pc = "p_text"
    /\ robust' = parse_email_robust(raw_output)
    /\ pc' = IF robust'.ok THEN "p_done" ELSE "p_fallback"
    /\ UNCHANGED <<notParser, raw_output, fallback>>

\* stage 2: otherwise the result of parse_email_fallback is returned
ParseFallback ==
    /\ pc = "p_fallback"
    /\ fallback' = parse_email_fallback(raw_output)
    /\ pc' = "p_done"
    /\ UNCHANGED <<notParser, raw_output, robust>>

\* parse_email of job_application_mails.py: the regex, and nothing after it
ParseRegexOnly ==
    /\ pc = "p_text"
    /\ robust' = parse_email(raw_output)
    /\ pc' = "p_done_regex"
    /\ UNCHANGED <<notParser, raw_output, fallback>>

NextParse ==
    \/ ParseRobust
    \/ ParseFallback
    \/ ParseRegexOnly

SpecParse == InitParse /\ [][NextParse]_vars

\* ------------------------------------------------------------------------
\* The regex stage applied to a four-section text that goes on after the
\* content of its INTENT section
\* ------------------------------------------------------------------------
\* the four sections, each with content, whitespace between them
Records ==
    { FourSections(cases, seps, layout, 0) :
        cases \in [1..4 -> {"upper", "lower"}],
        seps \in [1..3 -> {1, MaxBlank + 1}],
        layout \in 1..3 }

\* what follows the record: more words on the line or on later lines, a
\* label again, a second record, or whitespace alone
Trailers ==
    { <<"e">>,
      <<SP, "e">>,
      <<LF, "e">>,
      Newlines(MaxBlank + 1) \o <<"e", SP, "e", LF>>,
      <<LF, "INTENT:", SP, "e">>,
      <<SP, "tone:", SP, "e", SP, "INTENT:", SP, "e">>,
      <<LF>> \o Reply(<<"e">>, <<"e">>),
      <<SP, LF>> }

TrailingTexts == { r \o t : r \in Records, t \in Trailers }

InitTrailing ==
    /\ pc = "p_text"
    /\ raw_output \in TrailingTexts
    /\ robust = None
    /\ fallback = None
    /\ csvExists = FALSE
    /\ csvFile = <<>>
    /\ logFile = <<>>
    /\ debugFiles = {}
    /\ stopFile = FALSE
    /\ seen_hashes = {}
    /\ start_id = 1
    /\ current_id = 1
    /\ total_success = 0
    /\ attempt = 0
    /\ success = FALSE
    /\ calls = 0
    /\ totalCalls = 0
    /\ diskOk = TRUE
    /\ email_i = 0
    /\ successful = 0
    /\ failed = 0
    /\ jsonFiles = {}

NextTrailing ==
    \/ ParseRobust
    \/ ParseRegexOnly

SpecTrailing == InitTrailing /\ [][NextTrailing]_vars

\* ------------------------------------------------------------------------
\* The program with a backend that answers every request with a text that
\* parses: an attempt ends in a duplicate or in an acceptance
\* ------------------------------------------------------------------------
NextDuplicates ==
    \/ Startup
    \/ LoopExit
    \/ BeginItem
    \/ DuplicateDetected
    \/ Accept
    \/ Skipped
    \/ NextItem
    \/ Finish

SpecDuplicates == Init /\ [][NextDuplicates]_vars

\* ------------------------------------------------------------------------
\* One run of the script, started on a Table File that holds N rows
\* ------------------------------------------------------------------------
\* a Table File as earlier runs leave it: the header line and N rows with the
\* ids 1..N and N different bodies ("a", "aa", ...)
TableOf(N) ==
    <<fieldnames>> \o
    [k \in 1..N |->
        writerow([id |-> k, subject |-> <<"a">>, body |-> [i \in 1..k |-> "a"],
                  tone |-> <<"a">>, intent |-> <<"a">>])]

InitRun ==
    /\ pc = "idle"
    /\ csvExists = TRUE
    /\ csvFile \in {TableOf(N) : N \in 0..(NUM_EMAILS + 1)}
    /\ logFile = <<>>
    /\ debugFiles = {}
    /\ stopFile \in BOOLEAN
    /\ seen_hashes = {}
    /\ start_id = 1
    /\ current_id = 1
    /\ total_success = 0
    /\ attempt = 0
    /\ success = FALSE
    /\ calls = 0
    /\ totalCalls = 0
    /\ diskOk = TRUE
    /\ email_i = 0
    /\ successful = 0
    /\ failed = 0
    /\ jsonFiles = {}
    /\ raw_output = <<>>
    /\ robust = None
    /\ fallback = None

\* the script is started once
StartRun == pc = "idle" /\ Startup

\* a statement of the main loop: the script is one sequential process, and
\* each of its statements is executed once the one before it is over
Step ==
    \/ LoopExit
    \/ StopDetected
    \/ BeginItem
    \/ BackendFailure
    \/ ParseFailure
    \/ DuplicateDetected
    \/ Accept
    \/ Skipped
    \/ NextItem
    \/ Finish

NextRun ==
    \/ StartRun
    \/ LoopExit
    \/ StopDetected
    \/ BeginItem
    \/ BackendFailure
    \/ ParseFailure
    \/ DuplicateDetected
    \/ Accept
    \/ Skipped
    \/ NextItem
    \/ Finish
    \/ Interrupt
    \/ CreateStop
    \/ RemoveStop

\* call_ollama returns after the answer, an error or the timeout of the
\* request, and every other statement of the loop ends by itself: a run that
\* can take a step takes one
SpecRun == InitRun /\ [][NextRun]_vars /\ WF_vars(Step)

\* ------------------------------------------------------------------------
\* What the properties speak of
\* ------------------------------------------------------------------------
\* the data rows of the Table File, in file order
Rows == IF csvFile = <<>> THEN <<>> ELSE Tail(csvFile)

RowId(row) == row[1]

RowBody(row) == row[3]

\* the script is running, or has ended and its last values can still be told
InRun == pc \in {"loop", "attempt", "after", "end", "done"}

\* the index in LOG_FILE of the session-start line of the latest run
SessionStart ==
    CHOOSE i \in 1..Len(logFile) :
        /\ logFile[i].ev = "START"
        /\ \A j \in (i + 1)..Len(logFile) : logFile[j].ev # "START"

\* the lines the latest run has logged for its items, in order
SessionItems ==
    SelectSeq(SubSeq(logFile, SessionStart + 1, Len(logFile)),
              LAMBDA l : l.ev \in {"SUCCESS", "SKIPPED"})

\* the rows the latest run has appended, in order
RunRows == SubSeq(Rows, start_id, Len(Rows))

\* nothing has been logged since the session-start line of the run
JustStarted ==
    /\ pc \in {"loop", "attempt", "after", "end"}
    /\ logFile[Len(logFile)].ev = "START"

\* ------------------------------------------------------------------------
\* C1: from an absent or empty Table File, after any sequence of runs (each
\* possibly stopped or killed and later resumed), no two rows of the Table
\* File have the same body.
\* ------------------------------------------------------------------------
C1_NoTwoRowsWithOneBody ==
    \A i, j \in 1..Len(Rows) : i # j => RowBody(Rows[i]) # RowBody(Rows[j])

\* ------------------------------------------------------------------------
\* C2: from an absent Table File, after any sequence of runs with accepted
\* and exhausted items, interrupted and restarted, no two rows of the Table
\* File carry the same id.
\* ------------------------------------------------------------------------
C2_NoTwoRowsWithOneId ==
    \A i, j \in 1..Len(Rows) : i # j => RowId(Rows[i]) # RowId(Rows[j])

\* ------------------------------------------------------------------------
\* C3: start-up on a Table File of N data rows, whatever they contain,
\* yields start_id = N + 1 and a seen_hashes that holds the digest of the
\* body of every one of the N rows.
\* ------------------------------------------------------------------------
C3_StartupSeedsEveryBody ==
    JustStarted =>
        /\ start_id = Len(Rows) + 1
        /\ current_id = start_id
        /\ \A i \in 1..Len(Rows) : md5(RowBody(Rows[i])) \in seen_hashes

\* ------------------------------------------------------------------------
\* C5: every record of a successful parse, and so every row appended to the
\* Table File, has a non-empty subject, body, tone and intent.
\* ------------------------------------------------------------------------
C5_RowsHaveNoEmptyField ==
    \A i \in 1..Len(Rows) : \A c \in 2..5 : Rows[i][c] # <<>>

\* ------------------------------------------------------------------------
\* C4: the attempt loop of an item never runs more than MAX_RETRIES
\* attempts, each attempt is one request to the backend, an attempt whose
\* text does not parse appends no row and is no success, and an item that
\* ends without success has made exactly MAX_RETRIES requests, is logged as
\* skipped and has appended no row.
\* ------------------------------------------------------------------------
C4_AttemptsWithinBound ==
    /\ pc = "attempt" => attempt \in 1..MAX_RETRIES /\ calls = attempt - 1
    /\ pc = "after" => attempt \in 1..MAX_RETRIES /\ calls = attempt
    /\ (pc = "after" /\ ~success) =>
          /\ calls = MAX_RETRIES
          /\ \A k \in 1..Len(RunRows) : RowId(RunRows[k]) < current_id

C4_UnparsableTextIsNoSuccess ==
    debugFiles' # debugFiles =>
        /\ calls' = calls + 1
        /\ csvFile' = csvFile
        /\ success' = success
        /\ pc' = (IF attempt = MAX_RETRIES THEN "after" ELSE "attempt")

C4_ExhaustedIsSkipped ==
    (pc = "after" /\ ~success /\ pc' = "loop") =>
        /\ logFile' = Append(logFile, LogLine("SKIPPED", current_id))
        /\ csvFile' = csvFile

C4_AttemptBound ==
    /\ []C4_AttemptsWithinBound
    /\ [][C4_UnparsableTextIsNoSuccess]_vars
    /\ [][C4_ExhaustedIsSkipped]_vars

\* an item ends exhausted after three texts that did not parse, no row written
C4_Witness ==
    /\ pc = "after" /\ ~success /\ calls = MAX_RETRIES
    /\ Rows = <<>>
    /\ \A a \in 1..MAX_RETRIES : <<current_id, a, <<"a", SP, "b">> >> \in debugFiles

\* ------------------------------------------------------------------------
\* C6: within one run the ids go up in item order: every row appended has
\* an id above that of every row appended before it in the run, and the id
\* of an item that ended exhausted is the id of no row of the run.
\* ------------------------------------------------------------------------
C6_IdsIncreaseInItemOrder ==
    InRun =>
        \A items \in {SessionItems} :
        \A saved \in {SelectSeq(items, LAMBDA l : l.ev = "SUCCESS")} :
        \A rows \in {RunRows} :
           /\ \A i, j \in 1..Len(items) : i < j => items[i].n < items[j].n
           /\ \A i, j \in 1..Len(rows) : i < j => RowId(rows[i]) < RowId(rows[j])
           /\ Len(saved) = Len(rows)
           /\ \A k \in 1..Len(saved) : RowId(rows[k]) = saved[k].n
           /\ \A i \in 1..Len(items) : \A k \in 1..Len(rows) :
                 items[i].ev = "SKIPPED" => RowId(rows[k]) # items[i].n

\* a run has saved item 1, skipped item 2, saved item 3 and ended
C6_Witness ==
    /\ pc = "done"
    /\ Len(SessionItems) = 3
    /\ SessionItems[2].ev = "SKIPPED"
    /\ Len(RunRows) = 2

\* ------------------------------------------------------------------------
\* C7 as claimed: the ids of the rows appended in one run are the unbroken
\* range start_id, start_id + 1, ... whatever items were accepted or
\* exhausted.
\* ------------------------------------------------------------------------
C7_RowIdsContiguous ==
    InRun => \A k \in 1..Len(RunRows) : RowId(RunRows[k]) = start_id + k - 1

\* C7 as amended: the ids of the items a run has processed, accepted or
\* exhausted, are the unbroken range start_id, start_id + 1, ...; the rows
\* appended carry the ids of the accepted items, so the ids of two
\* consecutive rows of the run differ by one plus the number of items
\* exhausted between them.
C7_ItemIdsContiguous ==
    InRun =>
        \A items \in {SessionItems} :
        \A rows \in {RunRows} :
        /\ \A k \in 1..Len(items) : items[k].n = start_id + k - 1
        /\ current_id = start_id + Len(items)
        /\ \A k \in 1..(Len(rows) - 1) :
              RowId(rows[k + 1]) - RowId(rows[k]) =
                 1 + Cardinality({i \in 1..Len(items) :
                                     /\ items[i].ev = "SKIPPED"
                                     /\ RowId(rows[k]) < items[i].n
                                     /\ items[i].n < RowId(rows[k + 1])})
        /\ \A k \in 1..Len(rows) :
              \E i \in 1..Len(items) : items[i].ev = "SUCCESS" /\ items[i].n = RowId(rows[k])

\* two consecutive rows of a run whose ids differ by two
C7_Witness ==
    /\ InRun
    /\ Len(RunRows) = 2
    /\ RowId(RunRows[2]) - RowId(RunRows[1]) = 2

\* the latest run has logged the manual stop
ManualStopLogged ==
    \E i \in (SessionStart + 1)..Len(logFile) : logFile[i].ev = "MANUAL STOP"

\* ------------------------------------------------------------------------
\* C8: when stop.txt is present at the check of an item, the run logs the
\* manual stop and goes to its end: from then on it makes no request and
\* appends no row, the rows of the Table File stay as they are, and the
\* session end is logged with the count of the run.  A run stopped before
\* item k has processed the items start_id .. k - 1 and no other, and the
\* rows it has appended are those of the accepted ones among them.
\* ------------------------------------------------------------------------
C8_StopCheck ==
    (pc = "loop" /\ current_id <= NUM_EMAILS /\ stopFile /\ pc' \notin {"loop", "dead"}) =>
        /\ pc' = "end"
        /\ logFile' = Append(logFile, LogLine("MANUAL STOP", 0))
        /\ csvFile' = csvFile
        /\ totalCalls' = totalCalls
        /\ current_id' = current_id

C8_EndOfRun ==
    pc \in {"end", "done"} =>
        /\ csvFile' = csvFile
        /\ totalCalls' = totalCalls
        /\ (pc = "end" => pc' \in {"end", "done", "dead"})
        /\ (pc = "end" /\ pc' = "done") =>
              logFile' = Append(logFile, LogLine("STOPPED", total_success))

C8_StoppedRun ==
    (InRun /\ ManualStopLogged) =>
        /\ pc \in {"end", "done"}
        /\ Len(SessionItems) = current_id - start_id
        /\ \A k \in 1..Len(SessionItems) : SessionItems[k].n = start_id + k - 1
        /\ Len(RunRows) = total_success
        /\ Len(RunRows) = Len(SelectSeq(SessionItems, LAMBDA l : l.ev = "SUCCESS"))

C8_SentinelStopsTheRun ==
    /\ [][C8_StopCheck]_vars
    /\ [][C8_EndOfRun]_vars
    /\ []C8_StoppedRun

\* a run that started at id 1 was stopped before item 3, after it had
\* processed two items, and has ended
C8_Witness ==
    /\ pc = "done"
    /\ ManualStopLogged
    /\ start_id = 1 /\ current_id = 3
    /\ Len(SessionItems) = 2
    /\ Len(RunRows) = 1
    /\ logFile[Len(logFile)] = LogLine("STOPPED", 1)

\* ------------------------------------------------------------------------
\* C9: the Table File is append-only: every step, start-up on an existing
\* file included, keeps the lines it held, in their order, and an accepted
\* item adds exactly one row, in the column order id, subject, body, tone,
\* intent.
\* ------------------------------------------------------------------------
IsPrefix(s, t) == Len(s) <= Len(t) /\ \A i \in 1..Len(s) : s[i] = t[i]

C9_Step ==
    /\ IsPrefix(csvFile, csvFile')
    /\ (csvExists /\ csvFile' # csvFile) =>
          /\ total_success' = total_success + 1
          /\ \E t \in Texts :
                /\ Parsed[t].ok
                /\ csvFile' = Append(csvFile, <<current_id, Parsed[t].subject, Parsed[t].body,
                                                 Parsed[t].tone, Parsed[t].intent>>)
    /\ (pc = "attempt" /\ total_success' = total_success + 1) =>
          Len(csvFile') = Len(csvFile) + 1
    /\ (~csvExists /\ csvFile' # csvFile) =>
          csvFile' = << <<"id", "subject", "body", "tone", "intent">> >>

C9_AppendOnly == [][C9_Step]_vars

\* a second run has appended a row after the row of a first run
C9_Witness ==
    /\ InRun
    /\ start_id = 2
    /\ Len(Rows) = 2

\* ------------------------------------------------------------------------
\* C10: an item that consumed all its attempts without acceptance does not
\* end the run: the skip is logged, the id goes up by exactly one, the ids
\* of a run never go down (the item is not taken up again), and with the
\* target not passed and no stop.txt the next step of the run starts the
\* next item.
\* ------------------------------------------------------------------------
C10_SkipStep ==
    (pc = "after" /\ ~success /\ pc' \notin {"after", "dead"}) =>
        /\ pc' = "loop"
        /\ logFile' = Append(logFile, LogLine("SKIPPED", current_id))
        /\ current_id' = current_id + 1
        /\ csvFile' = csvFile

C10_NoWayBack ==
    (pc \in {"loop", "attempt", "after"} /\ pc' \in {"loop", "attempt", "after", "end"}) =>
        current_id' >= current_id

C10_NextItemStarts ==
    (pc = "loop" /\ current_id <= NUM_EMAILS /\ ~stopFile /\ pc' \notin {"loop", "dead"}) =>
        /\ pc' = "attempt"
        /\ attempt' = 1
        /\ ~success'
        /\ current_id' = current_id

C10_NeverStuck ==
    /\ (pc = "after" /\ ~success) => ENABLED Skipped
    /\ (pc = "loop" /\ current_id <= NUM_EMAILS /\ ~stopFile) => ENABLED BeginItem

C10_ExhaustionIsNotFatal ==
    /\ [][C10_SkipStep]_vars
    /\ [][C10_NoWayBack]_vars
    /\ [][C10_NextItemStarts]_vars
    /\ []C10_NeverStuck

\* after item 1 was skipped, the run is at an attempt of item 2
C10_Witness ==
    /\ pc = "attempt"
    /\ current_id = 2
    /\ logFile[Len(logFile)] = LogLine("SKIPPED", 1)

\* ------------------------------------------------------------------------
\* C11: a failed request (call_ollama returns None, or an empty text) takes
\* exactly one attempt and one request of the item and nothing else: the
\* Table File, seen_hashes, current_id and the debug files are as before, the
\* process goes on, and the next attempt follows unless this was the last
\* one, after which the for loop is over without success.
\* ------------------------------------------------------------------------
C11_Frame ==
    /\ csvExists' = csvExists /\ csvFile' = csvFile
    /\ seen_hashes' = seen_hashes
    /\ current_id' = current_id
    /\ debugFiles' = debugFiles
    /\ total_success' = total_success /\ success' = success
    /\ calls' = calls + 1
    /\ IF attempt < MAX_RETRIES
       THEN pc' = "attempt" /\ attempt' = attempt + 1
       ELSE pc' = "after" /\ ~success'

C11_BackendFailureTakesOneAttempt == [][BackendFailure => C11_Frame]_vars

\* the first attempt of an item was a failed request (nothing is in
\* seen_hashes, so it was no duplicate; no debug file, so no parse failure)
\* and the second attempt is about to be made
C11_Witness ==
    /\ pc = "attempt" /\ attempt = 2 /\ calls = 1
    /\ seen_hashes = {} /\ debugFiles = {}

\* ------------------------------------------------------------------------
\* C12: a step of the run in which the write of a log line or of a debug
\* file fails does not end the run: the process is alive after it.  (The
\* log writes of the stop check, the skip and the session end are swallowed
\* by log_event; the write of the debug file is not.)
\* ------------------------------------------------------------------------
C12_FailedWriteStep ==
    ~diskOk /\ (StopDetected \/ Skipped \/ Finish \/ DebugWriteFailure)

C12_WriteFailuresAreSwallowed == [][C12_FailedWriteStep => pc' # "dead"]_vars

\* ------------------------------------------------------------------------
\* C15: a start of the script while the Table File cannot be created or
\* opened ends the script at once: the step leads to no loop, makes no
\* request, starts no item, and leaves the Table File, the log and the
\* debug files as they were; and a run is in its loop only with a Table
\* File that exists and has its header.
\* ------------------------------------------------------------------------
C15_FailedStartStep ==
    (pc \in {"idle", "done", "dead"} /\ ~diskOk /\ pc' # pc)
        => /\ pc' = "dead"
           /\ UNCHANGED <<csvExists, csvFile, logFile, debugFiles, totalCalls>>

C15_LoopHasTableFile ==
    pc \in {"loop", "attempt", "after", "end"} => csvExists /\ Len(csvFile) >= 1

C15_StartupFailureIsFatal == [][C15_FailedStartStep]_vars /\ []C15_LoopHasTableFile

\* the script was started on a file system that fails, with no Table File,
\* and has ended: no run has ever logged its start
C15_Witness ==
    pc = "dead" /\ ~diskOk /\ ~csvExists /\ logFile = <<>> /\ totalCalls = 0

\* ------------------------------------------------------------------------
\* C13: when an item has just ended Accepted, DEBUG_DIR holds no debug file
\* of that item.
\* ------------------------------------------------------------------------
C13_AcceptedLeavesNoArtifact ==
    (pc = "after" /\ success) => \A d \in debugFiles : d[1] # current_id - 1

\* ------------------------------------------------------------------------
\* C14: a debug file is there only for an attempt whose backend text did
\* not parse: every file of DEBUG_DIR holds a text on which parse_email
\* fails.
\* ------------------------------------------------------------------------
C14_ArtifactsHoldUnparsedText ==
    \A d \in debugFiles : ~ParsedMultiline[d[3]].ok

\* ------------------------------------------------------------------------
\* What the properties about the parsers speak of
\* ------------------------------------------------------------------------
\* whether c is the label of section k, in either letter case
IsLabel(c, k) == c = labels[k] \/ c = (<<"subject:", "body:", "tone:", "intent:">>)[k]

\* the labels of a text in the order in which they occur, in upper case
RECURSIVE LabelsIn(_)
LabelsIn(t) ==
    IF t = <<>> THEN <<>>
    ELSE IF \E k \in 1..4 : IsLabel(Head(t), k)
         THEN <<labels[CHOOSE k \in 1..4 : IsLabel(Head(t), k)]>> \o LabelsIn(Tail(t))
         ELSE LabelsIn(Tail(t))

\* the positions of the labels in a text
LabelAt(t) == {p \in 1..Len(t) : \E k \in 1..4 : IsLabel(t[p], k)}

\* what stands in a text after its k-th label, up to the next label or the end
SectionOf(t, k) ==
    LET at == LabelAt(t)
        p == CHOOSE q \in at : Cardinality({r \in at : r < q}) = k - 1
        later == {r \in at : r > p}
        e == IF later = {} THEN Len(t) + 1 ELSE CHOOSE r \in later : \A x \in later : r <= x
    IN SubSeq(t, p + 1, e - 1)

\* a text made of the four labelled sections in their order: it starts with
\* SUBJECT:, has each label once and in order, every section has content
\* other than whitespace, and whitespace stands before BODY:, TONE: and INTENT:
WellFormed(t) ==
    /\ LabelsIn(t) = labels
    /\ IsLabel(t[1], 1)
    /\ \A k \in 1..4 : Strip(SectionOf(t, k)) # <<>>
    /\ \A k \in 1..3 : IsSpace(SectionOf(t, k)[Len(SectionOf(t, k))])

\* the record of the trimmed contents of the four sections
Sections(t) ==
    [ok |-> TRUE, subject |-> Strip(SectionOf(t, 1)), body |-> Strip(SectionOf(t, 2)),
     tone |-> Strip(SectionOf(t, 3)), intent |-> Strip(SectionOf(t, 4))]

\* ------------------------------------------------------------------------
\* C16: on a text made of the four labelled sections in their order, with
\* non-empty contents, any number of blank lines between the sections and
\* the labels in either letter case, the regex stage (parse_email_robust,
\* and parse_email of job_application_mails.py) returns exactly the four
\* trimmed section contents.
\* ------------------------------------------------------------------------
C16_Stage1RecoversSections ==
    (pc \in {"p_done", "p_fallback", "p_done_regex"} /\ WellFormed(raw_output))
        => robust = Sections(raw_output)

\* parse_email_robust has returned the contents of a text with lower-case
\* labels, MaxBlank blank lines before BODY: and a body of two lines
C16_Witness ==
    /\ pc = "p_done"
    /\ WellFormed(raw_output)
    /\ raw_output[1] = "subject:"
    /\ SectionOf(raw_output, 1) = <<SP, "a">> \o Newlines(MaxBlank + 1)
    /\ robust.ok /\ robust.subject = <<"a">>

\* ------------------------------------------------------------------------
\* C17: on a text in which one of the four labels does not occur, both
\* stages fail: parse_email_robust returns None, parse_email_fallback is
\* called and returns None, and so does parse_email; the regex of
\* job_application_mails.py returns None too.
\* ------------------------------------------------------------------------
MissesLabel(t) == \E k \in 1..4 : \A p \in 1..Len(t) : ~IsLabel(t[p], k)

C17_MissingLabelFailsBothStages ==
    MissesLabel(raw_output) =>
        /\ pc # "p_done" \/ (~robust.ok /\ ~fallback.ok)
        /\ pc = "p_done_regex" => ~robust.ok

\* both stages have run on a text that has three of the labels, each at the
\* start of a line and followed by content, and lacks TONE:
C17_Witness ==
    /\ pc = "p_done"
    /\ LabelsIn(raw_output) = <<"SUBJECT:", "BODY:", "INTENT:">>
    /\ raw_output = <<"SUBJECT:", SP, "a", LF, "BODY:", SP, "b", LF, SP, "c", LF, "INTENT:", SP, "d">>
    /\ ~robust.ok /\ ~fallback.ok

\* ------------------------------------------------------------------------
\* C18: on a text on which the regex stage fails although the four labels
\* occur in their order, each followed by content, the line scan is applied
\* and returns the four section contents, so parse_email succeeds.
\* ------------------------------------------------------------------------
C18_Stage2RecoversSections ==
    ( /\ pc = "p_done"
      /\ ~robust.ok
      /\ LabelsIn(raw_output) = labels
      /\ \A k \in 1..4 : Strip(SectionOf(raw_output, k)) # <<>> )
        => fallback = Sections(raw_output)

\* ------------------------------------------------------------------------
\* C19: when a run has ended, by the end of its loop or by the stop file,
\* the count in its session-end line is the number of rows it appended,
\* that is also the number of its items logged as saved, and its items
\* logged as saved plus its items logged as skipped are the items it
\* processed (the ids from start_id up to current_id - 1).  For
\* email_generator_nojson_multiline.py: at the summary, successful is the
\* number of JSON files saved and successful + failed = NUM_EMAILS.
\* ------------------------------------------------------------------------
C19_CountsAtEndOfRun ==
    pc = "done" =>
        LET session == (SessionStart + 1)..Len(logFile)
            saved == Cardinality({k \in session : logFile[k].ev = "SUCCESS"})
            skipped == Cardinality({k \in session : logFile[k].ev = "SKIPPED"})
        IN /\ logFile[Len(logFile)] = LogLine("STOPPED", total_success)
           /\ total_success = Len(Rows) - (start_id - 1)
           /\ total_success = saved
           /\ saved + skipped = current_id - start_id

C19_GenCountsAtSummary ==
    pc = "g_done" =>
        /\ successful = Cardinality(jsonFiles)
        /\ successful + failed = NUM_EMAILS

\* a run stopped by the stop file has ended after one saved and one skipped
\* item
C19_Witness ==
    /\ pc = "done"
    /\ ManualStopLogged
    /\ total_success = 1
    /\ current_id - start_id = 2

\* ------------------------------------------------------------------------
\* C20: an attempt whose parsed body has its digest in seen_hashes takes one
\* attempt and one request and nothing else: the Table File, seen_hashes,
\* current_id, the log and the debug files are as before.  An item whose
\* attempts were all such duplicates is over after MAX_RETRIES requests
\* without success and without a row, and is then logged as skipped.
\* ------------------------------------------------------------------------
C20_Frame ==
    /\ csvExists' = csvExists /\ csvFile' = csvFile
    /\ seen_hashes' = seen_hashes
    /\ current_id' = current_id
    /\ debugFiles' = debugFiles
    /\ logFile' = logFile
    /\ total_success' = total_success /\ success' = success
    /\ calls' = calls + 1
    /\ IF attempt < MAX_RETRIES
       THEN pc' = "attempt" /\ attempt' = attempt + 1
       ELSE pc' = "after" /\ ~success'

C20_AllDuplicates ==
    (pc = "after" /\ ~success) =>
        /\ calls = MAX_RETRIES
        /\ \A k \in 1..Len(Rows) : k >= start_id => RowId(Rows[k]) # current_id

C20_ThenSkipped ==
    (pc = "after" /\ ~success /\ pc' # pc) =>
        /\ pc' = "loop"
        /\ logFile' = Append(logFile, LogLine("SKIPPED", current_id))
        /\ csvFile' = csvFile
        /\ seen_hashes' = seen_hashes

C20_DuplicateTakesOneAttempt ==
    /\ [][DuplicateDetected => C20_Frame]_vars
    /\ []C20_AllDuplicates
    /\ [][C20_ThenSkipped]_vars

\* item 1 was saved and every attempt of item 2 was a duplicate: the Table
\* File has the one row and the for loop of item 2 is over without success
C20_Witness ==
    /\ pc = "after" /\ ~success
    /\ start_id = 1 /\ current_id = 2
    /\ Len(Rows) = 1 /\ RowId(Rows[1]) = 1
    /\ calls = MAX_RETRIES /\ debugFiles = {}

\* the request of the attempt is one that the backend is not let to
\* answer: the run waits in call_ollama
HeldAtRequest == pc = "attempt" /\ totalCalls = MaxCalls

\* ------------------------------------------------------------------------
\* C21: stop.txt is looked at only at the check before an item.  Once the
\* check of an item has passed, a stop.txt that appears does not touch the
\* item: every attempt is one request and ends in the acceptance (a row is
\* appended), in the next attempt, or after MAX_RETRIES attempts in the end
\* of the for loop; the item always gets there; an item without success has
\* made all MAX_RETRIES requests; and the run goes to its end, and logs the
\* manual stop, only from the check before the next item.
\* ------------------------------------------------------------------------
C21_AttemptStep ==
    (pc = "attempt" /\ calls' # calls /\ pc' # "dead") =>
        /\ calls' = calls + 1
        /\ stopFile' = stopFile
        /\ \/ /\ success' /\ pc' = "after"
              /\ Len(csvFile') = Len(csvFile) + 1
              /\ current_id' = current_id + 1
           \/ /\ ~success' /\ csvFile' = csvFile /\ current_id' = current_id
              /\ IF attempt < MAX_RETRIES
                 THEN pc' = "attempt" /\ attempt' = attempt + 1
                 ELSE pc' = "after"

C21_StopOnlyAtCheck ==
    /\ (pc \in {"attempt", "after"} /\ pc' # pc) => pc' \in {"attempt", "after", "loop", "dead"}
    /\ (pc' = "end" /\ pc # "end") => pc = "loop"
    /\ (logFile' # logFile /\ logFile'[Len(logFile')].ev = "MANUAL STOP") =>
          pc = "loop" /\ stopFile /\ current_id <= NUM_EMAILS

C21_ItemIsFinished ==
    /\ (pc = "after" /\ ~success) => calls = MAX_RETRIES
    /\ (pc = "after" /\ success) => calls \in 1..MAX_RETRIES
    /\ (pc = "attempt" /\ ~HeldAtRequest) => ENABLED BackendFailure
    /\ pc = "after" => ENABLED (Skipped \/ NextItem)

C21_NoMidAttemptCancellation ==
    /\ [][C21_AttemptStep]_vars
    /\ [][C21_StopOnlyAtCheck]_vars
    /\ []C21_ItemIsFinished
    /\ (pc = "attempt" /\ stopFile) ~> (pc \in {"after", "dead"} \/ HeldAtRequest)
    /\ (pc = "after" /\ stopFile) ~> (pc \in {"loop", "dead"})

\* stop.txt is there, and the item, whose check it did not stop, has been
\* accepted at its second attempt and has its row
C21_Witness ==
    /\ pc = "after" /\ stopFile
    /\ success /\ attempt = 2 /\ calls = 2
    /\ Len(RunRows) = 1 /\ RowId(RunRows[1]) = current_id - 1

\* ------------------------------------------------------------------------
\* C22: on a text that is a well-formed four-section record followed by
\* more text, the regex stage (parse_email_robust, and parse_email of
\* job_application_mails.py) does not fail: it returns the subject, body and
\* tone of the record, and as intent everything from the content of the
\* INTENT section to the end of the text, trimmed.
\* ------------------------------------------------------------------------
C22_TrailingTextIsAbsorbed ==
    pc \in {"p_done", "p_fallback", "p_done_regex"} =>
        \A n \in 1..(Len(raw_output) - 1) :
            \A record \in {SubSeq(raw_output, 1, n)} :
                WellFormed(record) =>
                    /\ pc # "p_fallback"
                    /\ robust.ok
                    /\ robust.subject = Sections(record).subject
                    /\ robust.body = Sections(record).body
                    /\ robust.tone = Sections(record).tone
                    /\ robust.intent = Strip(SectionOf(record, 4)
                                               \o SubSeq(raw_output, n + 1, Len(raw_output)))

\* parse_email_robust has returned, for a record with the intent d that is
\* followed by a second record, an intent that holds that second record
C22_Witness ==
    /\ pc = "p_done"
    /\ raw_output = <<"SUBJECT:", SP, "a", LF, "body:", SP, "b", LF, "TONE:", SP, "c", LF,
                      "INTENT:", SP, "d", LF>> \o Reply(<<"e">>, <<"e">>)
    /\ WellFormed(SubSeq(raw_output, 1, 15))
    /\ robust.ok
    /\ robust.tone = <<"c">>
    /\ robust.intent = <<"d", LF>> \o Reply(<<"e">>, <<"e">>)

\* ------------------------------------------------------------------------
\* C23: seen_hashes and the Table File move together during a run: between
\* two attempts every digest in seen_hashes is the digest of the body of a
\* row of the Table File; an acceptance adds one digest to seen_hashes and
\* one row with that body to the file; no other outcome of an attempt, and
\* no other statement of the loop, changes either.
\* ------------------------------------------------------------------------
C23_StoreWithinTable ==
    pc \in {"loop", "attempt", "after", "end"} =>
        \A h \in seen_hashes : \E i \in 1..Len(Rows) : h = md5(RowBody(Rows[i]))

C23_LoopStep ==
    (pc \in {"loop", "attempt", "after", "end"} /\ pc' # "dead") =>
        IF pc = "attempt" /\ success'
        THEN /\ Len(csvFile') = Len(csvFile) + 1
             /\ SubSeq(csvFile', 1, Len(csvFile)) = csvFile
             /\ md5(RowBody(csvFile'[Len(csvFile')])) \notin seen_hashes
             /\ seen_hashes' = seen_hashes \cup {md5(RowBody(csvFile'[Len(csvFile')]))}
        ELSE csvFile' = csvFile /\ seen_hashes' = seen_hashes

C23_StoreAndTableInLockstep ==
    /\ []C23_StoreWithinTable
    /\ [][C23_LoopStep]_vars

\* the larger of two numbers
Max(a, b) == IF a >= b THEN a ELSE b

\* ------------------------------------------------------------------------
\* C24: every run ends, whatever the backend answers, provided each request
\* returns.  current_id goes up by exactly one when an item ends, accepted
\* or exhausted, and at no other step; so a run that starts at start_id
\* processes at most max(0, NUM_EMAILS - start_id + 1) items and makes at
\* most MAX_RETRIES times that many requests, and it reaches the end of the
\* session.
\* ------------------------------------------------------------------------
C24_ItemEnds ==
    \/ pc = "attempt" /\ success'
    \/ pc = "after" /\ ~success /\ pc' = "loop"

C24_IdStep ==
    (pc \in {"loop", "attempt", "after", "end"} /\ pc' # "dead") =>
        current_id' = (IF C24_ItemEnds THEN current_id + 1 ELSE current_id)

C24_Bounded ==
    InRun =>
        \A most \in {Max(0, NUM_EMAILS - start_id + 1)} :
            /\ current_id - start_id <= most
            /\ Len(SessionItems) = current_id - start_id
            /\ totalCalls <= MAX_RETRIES * most
            /\ totalCalls <= MAX_RETRIES * (current_id - start_id) + calls
            /\ pc \in {"attempt", "after"} => current_id - start_id + (IF success THEN 0 ELSE 1) <= most

C24_RunTerminates ==
    /\ [][C24_IdStep]_vars
    /\ []C24_Bounded
    /\ (pc \in {"loop", "attempt", "after", "end"}) ~> (pc \in {"done", "dead"} \/ HeldAtRequest)

\* a run that started at id 2 has ended after it had processed the items 2
\* and 3, one of them exhausted and one accepted at its first attempt
C24_Witness ==
    /\ pc = "done"
    /\ start_id = 2 /\ current_id = 4
    /\ Len(SessionItems) = 2
    /\ \E k \in 1..2 : SessionItems[k].ev = "SKIPPED"
    /\ totalCalls = MAX_RETRIES + 1

\* ------------------------------------------------------------------------
\* C25: NUM_EMAILS bounds the ids, not the number of new rows.  In a run
\* started on a Table File of N rows (start_id = N + 1), the rows appended
\* carry ids from N + 1 to NUM_EMAILS, the N rows stay as they were, the
\* file never holds more than max(N, NUM_EMAILS) rows, and with
\* N >= NUM_EMAILS the run makes no request and appends nothing.
\* ------------------------------------------------------------------------
C25_TargetBoundsIds ==
    InRun =>
        \A N \in {start_id - 1} :
            /\ Len(Rows) >= N
            /\ SubSeq(csvFile, 1, N + 1) = TableOf(N)
            /\ \A k \in (N + 1)..Len(Rows) : RowId(Rows[k]) \in (N + 1)..NUM_EMAILS
            /\ Len(Rows) <= Max(N, NUM_EMAILS)
            /\ N >= NUM_EMAILS =>
                  /\ totalCalls = 0
                  /\ Len(Rows) = N
                  /\ pc \in {"loop", "end", "done"}

\* a run started on a Table File of one row has ended after it appended
\* the rows of the ids 2 .. NUM_EMAILS: the file holds NUM_EMAILS rows
C25_Witness ==
    /\ pc = "done"
    /\ start_id = 2
    /\ Len(Rows) = NUM_EMAILS
    /\ RowId(Rows[NUM_EMAILS]) = NUM_EMAILS
    /\ total_success = NUM_EMAILS - 1

\* a run started on a Table File of NUM_EMAILS + 1 rows has ended without a
\* request and without a new row
C25_WitnessAboveTarget ==
    /\ pc = "done"
    /\ start_id = NUM_EMAILS + 2
    /\ Len(Rows) = NUM_EMAILS + 1
    /\ totalCalls = 0
    /\ logFile[Len(logFile)] = LogLine("STOPPED", 0)

====
